---- MODULE Spec2Model ----
(***************************************************************************)
(* Model of src/endsem.py: the end-semester question paper generator.      *)
(* A question bank and a template are parsed, and for each requested set   *)
(* select_questions walks the OR-pairs and then the numbered slots,        *)
(* drawing one question per slot with random.choice; assemble_doc writes   *)
(* the drawn questions into a copy of the template.                        *)
(*                                                                         *)
(* random.choice is modelled as a nondeterministic choice over the list it *)
(* is given.  A template cell's coordinate (table, row, cell) is modelled  *)
(* by the cell's position in document order; every slot sits in a row of   *)
(* its own, and all rows of the template have row_cells cells.             *)
(***************************************************************************)
EXTENDS Integers, Sequences, FiniteSets, Bags, TLC

VARIABLES
    template,        \* has a template been uploaded (line 280)
    bank,            \* has a question bank been uploaded (line 281)
    questions,       \* extract_questions_from_bank_docx's result
    slots,           \* parse_template_slots's result
    row_cells,       \* len(row.cells) of the template's rows
    n_sets,          \* the "Number of Sets" input
    pc,              \* position of the button handler
    messages,        \* what st.error / st.warning have shown
    entries,         \* map_slots(slots), as coordinates
    or_pairs,        \* find_or_pairs(slots), as pairs of coordinates
    i,               \* the set loop's index (line 313)
    pi,              \* next OR-pair of the loop at line 186 (1-based)
    ei,              \* next entry of the loop at line 209 (1-based)
    selected,        \* select_questions's map coordinate -> question
    used_q_ids,      \* select_questions's used-set
    drawn,           \* the get_unique_question calls of this select_questions call
    doc,             \* the document assemble_doc built last
    buffers,         \* names of the documents produced (keys of buffers)
    all_used_q_ids,  \* line 305: a list read only through len() and set(), kept as a bag
    analysis         \* the repetition analysis shown (lines 332-352)

vars == <<template, bank, questions, slots, row_cells, n_sets, pc, messages,
          entries, or_pairs, i, pi, ei, selected, used_q_ids, drawn, doc,
          buffers, all_used_q_ids, analysis>>

-----------------------------------------------------------------------------
(* Bounds of the model *)

\* one set: cells of a template, rows of a bank
MaxCells == 3
MaxBank == 3
LevelBank == 2

\* templates with several OR markers, over a bank of like questions
ChainCells == 5
ChainBank == 3

\* a small bank for several sets
SmallCells == 3
SmallBank == 2
SmallSets == 2

\* several sets over a bank of like questions, three sets' worth of them for
\* up to SetsWorth slots
SetsCells == 3
SetsWorth == 2
SetsMax == 4

-----------------------------------------------------------------------------
(* Values *)

\* Python's None, for a number parsed by \d+ (never negative)
None == -1

\* Python truthiness of an optional int: None and 0 are false
Truthy(x) == x # None /\ x # 0

Range(s) == {s[k] : k \in DOMAIN s}

SeqsUpTo(S, n) == UNION {[1..k -> S] : k \in 0..n}

NoQuestion == [id |-> None, unit |-> None, bloom |-> None]

\* Lower and upper limit of st.number_input("Number of Sets", 1, 10, 2)
MinSets == 1
LimitSets == 10

\* len(row.cells) below which assemble_doc skips the row
MinRowCells == 4

-----------------------------------------------------------------------------
(* Parsing *)

\* extract_questions_from_bank_docx: ids are 1, 2, ... in row order
MakeQuestions(rows) ==
    [k \in DOMAIN rows |-> [id |-> k, unit |-> rows[k].unit, bloom |-> rows[k].bloom]]

OrCell == [slot_num |-> None, is_or |-> TRUE, unit_in_template |-> None]

SlotCell(n, u) == [slot_num |-> n, is_or |-> FALSE, unit_in_template |-> u]

\* allowed_blooms_for_slot_num with the first range ending one slot early
allowed_blooms_first_range_short(slot_num) ==
    IF 1 <= slot_num /\ slot_num < 10 THEN <<1, 2, 3>>
    ELSE IF 11 <= slot_num /\ slot_num <= 20 THEN <<4, 5>>
    ELSE IF 21 <= slot_num /\ slot_num <= 22 THEN <<6>>
    ELSE <<1, 2, 3, 4, 5, 6>>

allowed_blooms_for_slot_num(slot_num) ==
    IF 1 <= slot_num /\ slot_num <= 10 THEN <<1, 2, 3>>
    ELSE IF 11 <= slot_num /\ slot_num <= 20 THEN <<4, 5>>
    ELSE IF 21 <= slot_num /\ slot_num <= 22 THEN <<6>>
    ELSE <<1, 2, 3, 4, 5, 6>>

\* sorted(..., key=slot_num) is stable: insert after the equal keys
RECURSIVE InsertByNum(_, _, _)
InsertByNum(sl, sorted, c) ==
    IF sorted = <<>> THEN <<c>>
    ELSE IF sl[Head(sorted)].slot_num <= sl[c].slot_num
         THEN <<Head(sorted)>> \o InsertByNum(sl, Tail(sorted), c)
         ELSE <<c>> \o sorted

RECURSIVE SortCoords(_, _)
SortCoords(sl, cs) ==
    IF cs = <<>> THEN <<>>
    ELSE InsertByNum(sl, SortCoords(sl, SubSeq(cs, 1, Len(cs) - 1)), cs[Len(cs)])

\* [s for s in slots if s.get("slot_num")], from position k on
RECURSIVE Numbered(_, _)
Numbered(sl, k) ==
    IF k > Len(sl) THEN <<>>
    ELSE (IF Truthy(sl[k].slot_num) THEN <<k>> ELSE <<>>) \o Numbered(sl, k + 1)

map_slots(sl) == SortCoords(sl, Numbered(sl, 1))

\* nearest numbered slot before / after position k, or None
LeftOf(sl, k) ==
    LET js == {j \in 1..(k - 1) : Truthy(sl[j].slot_num)}
    IN IF js = {} THEN None ELSE CHOOSE j \in js : \A x \in js : x <= j

RightOf(sl, k) ==
    LET ks == {j \in (k + 1)..Len(sl) : Truthy(sl[j].slot_num)}
    IN IF ks = {} THEN None ELSE CHOOSE j \in ks : \A x \in ks : j <= x

RECURSIVE PairsFrom(_, _)
PairsFrom(sl, k) ==
    IF k > Len(sl) THEN <<>>
    ELSE (IF sl[k].is_or /\ LeftOf(sl, k) # None /\ RightOf(sl, k) # None
          THEN << <<LeftOf(sl, k), RightOf(sl, k)>> >>
          ELSE <<>>) \o PairsFrom(sl, k + 1)

find_or_pairs(sl) == PairsFrom(sl, 1)

-----------------------------------------------------------------------------
(* select_questions *)

by_bloom(b) == SelectSeq(questions, LAMBDA q : q.bloom = b)

by_unit_bloom(u, b) ==
    SelectSeq(questions, LAMBDA q : Truthy(q.unit) /\ q.unit = u /\ q.bloom = b)

\* [q for b in blooms for q in by_unit_bloom.get(unit, {}).get(b, [])]
RECURSIVE OfUnit(_, _)
OfUnit(unit, blooms) ==
    IF blooms = <<>> THEN <<>>
    ELSE by_unit_bloom(unit, Head(blooms)) \o OfUnit(unit, Tail(blooms))

\* [q for b in blooms for q in by_bloom[b]]
RECURSIVE OfBlooms(_)
OfBlooms(blooms) ==
    IF blooms = <<>> THEN <<>>
    ELSE by_bloom(Head(blooms)) \o OfBlooms(Tail(blooms))

\* the pool of a slot: the first list, or the second when the first is empty
PoolAll(unit, blooms) ==
    IF OfUnit(unit, blooms) # <<>> THEN OfUnit(unit, blooms) ELSE OfBlooms(blooms)

\* the used-set kept from one call of select_questions to the next
KeptUsedSet == used_q_ids

\* line 159: every call of select_questions starts from an empty used-set
NewUsedSet == {}

\* get_unique_question without the uniqueness filter
get_unique_question_unfiltered(pool, used) ==
    IF pool # <<>> THEN Range(pool) ELSE {NoQuestion}

\* get_unique_question without the fallback to the full pool
get_unique_question_no_fallback(pool, used) ==
    LET available == SelectSeq(pool, LAMBDA q : q.id \notin used)
    IN IF available = <<>> THEN {NoQuestion} ELSE Range(available)

\* the questions get_unique_question(pool) may return with used-set `used`
get_unique_question(pool, used) ==
    LET available == SelectSeq(pool, LAMBDA q : q.id \notin used)
    IN IF available = <<>>
       THEN (IF pool # <<>> THEN Range(pool) ELSE {NoQuestion})
       ELSE Range(available)

\* used_q_ids after a call that returned q
MarkUsed(used, q) == IF q # NoQuestion THEN used \cup {q.id} ELSE used

\* Assign keyed by the slot's number instead of its coordinate
AssignBySlotNum(sel, c, q) ==
    LET key == CHOOSE x \in 1..Len(slots) :
                   /\ slots[x].slot_num = slots[c].slot_num
                   /\ \A y \in 1..(x - 1) : slots[y].slot_num # slots[c].slot_num
    IN IF q # NoQuestion
       THEN [x \in DOMAIN sel \cup {key} |-> IF x = key THEN q ELSE sel[x]]
       ELSE sel

\* selected after `if q: selected[coord] = q`
Assign(sel, c, q) ==
    IF q # NoQuestion
    THEN [x \in DOMAIN sel \cup {c} |-> IF x = c THEN q ELSE sel[x]]
    ELSE sel

Ids(pool) == {pool[k].id : k \in DOMAIN pool}

\* one call of get_unique_question: the slot it was made for, the ids of its
\* pool, the used-set it found and the id of the question it returned
Draw(c, pool, used, q) == [coord |-> c, pool |-> Ids(pool), used |-> used, chosen |-> q.id]

LeftPool(pair) ==
    PoolAll(slots[pair[1]].unit_in_template,
            allowed_blooms_for_slot_num(slots[pair[1]].slot_num))

\* line 195: the right pool is built with unit = left.get("unit_in_template")
RightPool(pair) ==
    PoolAll(slots[pair[1]].unit_in_template,
            allowed_blooms_for_slot_num(slots[pair[2]].slot_num))

EntryPool(c) ==
    PoolAll(slots[c].unit_in_template, allowed_blooms_for_slot_num(slots[c].slot_num))

-----------------------------------------------------------------------------
(* assemble_doc *)

Untouched == [kind |-> "untouched", id |-> None]

Filled(q) == [kind |-> "question", id |-> q.id]

Placeholder == [kind |-> "tag not found", id |-> None]

assemble_doc(sel) ==
    [c \in 1..Len(slots) |->
        IF c \in DOMAIN sel /\ row_cells >= MinRowCells THEN Filled(sel[c]) ELSE Untouched]

NoAnalysis == [total |-> None, unique |-> None, repetitions |-> None]

Analyse(all) ==
    [total |-> BagCardinality(all),
     unique |-> Cardinality(BagToSet(all)),
     repetitions |-> BagCardinality(all) - Cardinality(BagToSet(all))]

-----------------------------------------------------------------------------
(* Inputs *)

\* "Unit n" of a template cell or a bank row, or none
Units == {None, 1, 2}

\* Levels: slots at the upper end of each level range and past the last one,
\* over rows of a level of each range; slot 10 names unit 1, whose only rows
\* are of a level slot 10 does not allow
LevelCells == {OrCell, SlotCell(10, 1)} \cup {SlotCell(n, None) : n \in {20, 22, 23}}
LevelRows == {[unit |-> None, bloom |-> 3], [unit |-> 1, bloom |-> 4], [unit |-> None, bloom |-> 6]}

\* Units: slot 1 with and without a unit, over rows of a level that fits it
UnitCells == {OrCell} \cup {SlotCell(1, u) : u \in Units}
UnitRows == [unit : Units, bloom : {3}]

\* Small: slots of two level ranges and slot 0 (a falsy number) over rows of
\* a level of the first range and of a level of neither
SmallCellTypes == {OrCell, SlotCell(0, None), SlotCell(1, None), SlotCell(11, None)}
SmallRows == [unit : {None}, bloom : {3, 6}]

\* Sets: like slots over like rows
LikeCells == {OrCell, SlotCell(1, None)}
LikeRows == {[unit |-> None, bloom |-> 3]}

\* Chains: like slots and slot 0 (a falsy number) over like rows
ChainCellTypes == LikeCells \cup {SlotCell(0, None)}

EmptyMap == [c \in {} |-> NoQuestion]

\* the handler has not run: nothing parsed, nothing selected
Idle ==
    /\ pc = "idle"
    /\ messages = {}
    /\ entries = <<>>
    /\ or_pairs = <<>>
    /\ i = 0
    /\ pi = 1
    /\ ei = 1
    /\ selected = EmptyMap
    /\ used_q_ids = {}
    /\ drawn = <<>>
    /\ doc = <<>>
    /\ buffers = {}
    /\ all_used_q_ids = EmptyBag
    /\ analysis = NoAnalysis

\* both files uploaded
Uploaded(cells, rows, widths, maxCells, maxBank, maxSets) ==
    /\ template = TRUE
    /\ bank = TRUE
    /\ slots \in SeqsUpTo(cells, maxCells)
    /\ questions \in {MakeQuestions(r) : r \in SeqsUpTo(rows, maxBank)}
    /\ row_cells \in widths
    /\ n_sets \in {n \in MinSets..LimitSets : n <= maxSets}

\* a file is missing: the handler stops before it reads anything
NotUploaded ==
    /\ template \in BOOLEAN
    /\ bank \in BOOLEAN
    /\ ~(template /\ bank)
    /\ slots = <<>>
    /\ questions = <<>>
    /\ row_cells = MinRowCells
    /\ n_sets = MinSets

Init ==
    /\ Idle
    /\ \/ Uploaded(LevelCells, LevelRows, {MinRowCells}, MaxCells, LevelBank, MinSets)
       \/ Uploaded(UnitCells, UnitRows, {MinRowCells}, MaxCells, MaxBank, MinSets)
       \/ NotUploaded

InitChain ==
    /\ Idle
    /\ \/ Uploaded(ChainCellTypes, LikeRows, {MinRowCells - 1, MinRowCells},
                   ChainCells, ChainBank, SmallSets)
       \/ NotUploaded

InitSmall ==
    /\ Idle
    /\ \/ Uploaded(SmallCellTypes, SmallRows, {MinRowCells}, SmallCells, SmallBank, SmallSets)
       \/ NotUploaded

InitSets ==
    /\ Idle
    /\ \/ /\ Uploaded(LikeCells, LikeRows, {MinRowCells}, SetsCells, 3 * SetsWorth, SetsMax)
          /\ Len(questions) \in {3 * k : k \in 0..SetsWorth}
          /\ Len(map_slots(slots)) <= SetsWorth
       \/ NotUploaded

-----------------------------------------------------------------------------
(* The button handler, lines 284-362 *)

ErrUpload == "Upload both template and question bank"
WarnNoSlots == "No question slots found in the template"
ErrTooSmall == "Repetition is UNAVOIDABLE"
Loaded == "questions loaded from question bank"

\* lines 285-287
GenerateMissing ==
    /\ pc = "idle"
    /\ ~(template /\ bank)
    /\ messages' = messages \cup {ErrUpload}
    /\ pc' = "stopped"
    /\ UNCHANGED <<template, bank, questions, slots, row_cells, n_sets, entries,
                   or_pairs, i, pi, ei, selected, used_q_ids, drawn, doc, buffers,
                   all_used_q_ids, analysis>>

\* lines 293-302
GenerateNoSlots ==
    /\ pc = "idle"
    /\ template /\ bank
    /\ map_slots(slots) = <<>>
    /\ entries' = map_slots(slots)
    /\ or_pairs' = find_or_pairs(slots)
    /\ messages' = messages \cup {Loaded, WarnNoSlots}
    /\ pc' = "stopped"
    /\ UNCHANGED <<template, bank, questions, slots, row_cells, n_sets, i, pi, ei,
                   selected, used_q_ids, drawn, doc, buffers, all_used_q_ids,
                   analysis>>

\* line 308 with an OR-pair counted as one question
questions_required_pairs_once(es, ps) == Len(es) - Len(ps)

\* line 308
questions_required_per_set(es, ps) == Len(es) + Len(ps)

\* lines 293-313, up to the first call of select_questions
Generate ==
    /\ pc = "idle"
    /\ template /\ bank
    /\ map_slots(slots) # <<>>
    /\ entries' = map_slots(slots)
    /\ or_pairs' = find_or_pairs(slots)
    /\ messages' = messages \cup {Loaded} \cup
         (IF Len(questions) < questions_required_per_set(map_slots(slots), find_or_pairs(slots))
          THEN {ErrTooSmall} ELSE {})
    /\ i' = 0
    /\ pi' = 1
    /\ ei' = 1
    /\ selected' = EmptyMap
    /\ used_q_ids' = NewUsedSet
    /\ drawn' = <<>>
    /\ pc' = "select"
    /\ UNCHANGED <<template, bank, questions, slots, row_cells, n_sets, doc, buffers,
                   all_used_q_ids, analysis>>

\* one pass of the loop at lines 186-206
SelectPair ==
    /\ pc = "select"
    /\ pi <= Len(or_pairs)
    /\ LET pair == or_pairs[pi]
           lp_all == LeftPool(pair)
           rp_all == RightPool(pair)
       IN \E q_left \in get_unique_question(lp_all, used_q_ids) :
            LET used1 == MarkUsed(used_q_ids, q_left)
                sel1 == Assign(selected, pair[1], q_left)
            IN \E q_right \in get_unique_question(rp_all, used1) :
                 /\ used_q_ids' = MarkUsed(used1, q_right)
                 /\ selected' = Assign(sel1, pair[2], q_right)
                 /\ drawn' = drawn \o <<Draw(pair[1], lp_all, used_q_ids, q_left),
                                        Draw(pair[2], rp_all, used1, q_right)>>
    /\ pi' = pi + 1
    /\ UNCHANGED <<template, bank, questions, slots, row_cells, n_sets, pc, messages,
                   entries, or_pairs, i, ei, doc, buffers, all_used_q_ids, analysis>>

\* one pass of the loop at lines 209-224
SelectEntry ==
    /\ pc = "select"
    /\ pi > Len(or_pairs)
    /\ ei <= Len(entries)
    /\ LET coord == entries[ei]
           pool_all == EntryPool(coord)
       IN IF coord \in DOMAIN selected
          THEN UNCHANGED <<selected, used_q_ids, drawn>>
          ELSE \E chosen_q \in get_unique_question(pool_all, used_q_ids) :
                 /\ used_q_ids' = MarkUsed(used_q_ids, chosen_q)
                 /\ selected' = Assign(selected, coord, chosen_q)
                 /\ drawn' = drawn \o <<Draw(coord, pool_all, used_q_ids, chosen_q)>>
    /\ ei' = ei + 1
    /\ UNCHANGED <<template, bank, questions, slots, row_cells, n_sets, pc, messages,
                   entries, or_pairs, i, pi, doc, buffers, all_used_q_ids, analysis>>

\* select_questions is at its return statement, line 226
Returned == pc = "select" /\ pi > Len(or_pairs) /\ ei > Len(entries)

\* lines 314-322 after select_questions returned, and the next call's start
AssembleSet ==
    /\ Returned
    /\ all_used_q_ids' = all_used_q_ids (+) SetToBag(used_q_ids)
    /\ doc' = assemble_doc(selected)
    /\ buffers' = buffers \cup {i + 1}
    /\ i' = i + 1
    /\ IF i + 1 < n_sets
       THEN /\ pi' = 1
            /\ ei' = 1
            /\ selected' = EmptyMap
            /\ used_q_ids' = NewUsedSet
            /\ drawn' = <<>>
            /\ pc' = "select"
       ELSE /\ pc' = "analysis"
            /\ UNCHANGED <<pi, ei, selected, used_q_ids, drawn>>
    /\ UNCHANGED <<template, bank, questions, slots, row_cells, n_sets, messages,
                   entries, or_pairs, analysis>>

\* lines 332-362
Finish ==
    /\ pc = "analysis"
    /\ analysis' = IF n_sets >= 2 /\ all_used_q_ids # EmptyBag
                   THEN Analyse(all_used_q_ids) ELSE NoAnalysis
    /\ pc' = "done"
    /\ UNCHANGED <<template, bank, questions, slots, row_cells, n_sets, messages,
                   entries, or_pairs, i, pi, ei, selected, used_q_ids, drawn, doc,
                   buffers, all_used_q_ids>>

Next ==
    \/ GenerateMissing
    \/ GenerateNoSlots
    \/ Generate
    \/ SelectPair
    \/ SelectEntry
    \/ AssembleSet
    \/ Finish

Spec == Init /\ [][Next]_vars

SpecChain == InitChain /\ [][Next]_vars

SpecSmall == InitSmall /\ [][Next]_vars

SpecSets == InitSets /\ [][Next]_vars

-----------------------------------------------------------------------------
(* Properties *)

AllIds == {questions[k].id : k \in DOMAIN questions}

SelectedIds == {selected[c].id : c \in DOMAIN selected}

Entries == Range(entries)

\* a slot's pool is empty exactly when the bank has no question of a level
\* the slot's number allows
NoCandidate(c) == OfBlooms(allowed_blooms_for_slot_num(slots[c].slot_num)) = <<>>

\* C1: a draw returns a question that is already in the used-set only if
\* every question of the slot's pool is already in the used-set.
C1_RepeatOnlyWhenExhausted ==
    \A k \in DOMAIN drawn :
        drawn[k].chosen \in drawn[k].used => drawn[k].pool \subseteq drawn[k].used

\* a draw took an unused question from a pool that also held used ones, and
\* a later draw of the same set had to repeat
C1_Witness ==
    /\ \E k \in DOMAIN drawn :
          /\ drawn[k].pool \cap drawn[k].used # {}
          /\ drawn[k].chosen \in drawn[k].pool \ drawn[k].used
    /\ \E k \in DOMAIN drawn : drawn[k].chosen \in drawn[k].used

\* C2: a draw from a non-empty pool whose questions are all used returns a
\* question of that pool, a repeat, and the slot is assigned; two slots that
\* draw from the same pool of one question both get that question.
C2_FallbackRepeats ==
    /\ \A k \in DOMAIN drawn :
          (drawn[k].pool # {} /\ drawn[k].pool \subseteq drawn[k].used)
              => /\ drawn[k].chosen \in drawn[k].pool
                 /\ drawn[k].chosen \in drawn[k].used
                 /\ drawn[k].coord \in DOMAIN selected
    /\ \A j, k \in DOMAIN drawn :
          (j < k /\ drawn[j].pool = drawn[k].pool /\ Cardinality(drawn[k].pool) = 1)
              => /\ drawn[j].chosen \in drawn[j].pool
                 /\ drawn[k].chosen = drawn[j].chosen

\* two standalone slots drew from the same pool of one question
C2_Witness ==
    /\ Returned
    /\ or_pairs = <<>>
    /\ \E j, k \in DOMAIN drawn :
          /\ j < k
          /\ drawn[j].coord # drawn[k].coord
          /\ drawn[j].pool = drawn[k].pool
          /\ Cardinality(drawn[k].pool) = 1
          /\ selected[drawn[j].coord] = selected[drawn[k].coord]

\* C3: after a set is assembled, every slot without a candidate in the bank
\* shows the placeholder.
C3_PlaceholderShown ==
    i >= 1 => \A c \in Entries : NoCandidate(c) => doc[c] = Placeholder

\* C4: the members of an OR-pair end the set with distinct questions when at
\* least two unused questions of both its pools existed as it was processed.
\* The draws of pair p are the draws 2p-1 and 2p of the set.
C4_PairDistinct ==
    Returned =>
        \A p \in DOMAIN or_pairs :
            LET left == or_pairs[p][1]
                right == or_pairs[p][2]
                eligible == (drawn[2 * p - 1].pool \cap drawn[2 * p].pool)
                                \ drawn[2 * p - 1].used
            IN Cardinality(eligible) >= 2
                   => /\ left \in DOMAIN selected
                      /\ right \in DOMAIN selected
                      /\ selected[left].id # selected[right].id

\* C5: without OR-pairs, N slots whose pools each hold at least N questions
\* are all filled, with N pairwise distinct questions.
C5_AllFilledDistinct ==
    (/\ Returned
     /\ or_pairs = <<>>
     /\ \A c \in Entries : Len(EntryPool(c)) >= Len(entries))
        => /\ DOMAIN selected = Entries
           /\ Cardinality(DOMAIN selected) = Len(entries)
           /\ Cardinality(SelectedIds) = Len(entries)

\* two slots with different, overlapping pools were filled
C5_Witness ==
    /\ Returned
    /\ or_pairs = <<>>
    /\ Len(entries) >= 2
    /\ \A c \in Entries : Len(EntryPool(c)) >= Len(entries)
    /\ \E c, d \in Entries : EntryPool(c) # EntryPool(d)
    /\ Cardinality(SelectedIds) = Len(entries)

\* the draws a set makes: two for every OR-pair, one for every other slot
DrawsPerSet ==
    2 * Len(or_pairs)
      + Cardinality(Entries \ {or_pairs[p][s] : p \in DOMAIN or_pairs, s \in {1, 2}})

\* every question of the bank is a candidate of every slot
AllAvailable ==
    /\ \A p \in DOMAIN or_pairs :
          Ids(LeftPool(or_pairs[p])) = AllIds /\ Ids(RightPool(or_pairs[p])) = AllIds
    /\ \A c \in Entries : Ids(EntryPool(c)) = AllIds

\* the bank holds exactly three sets' worth of questions
ThreeSetsWorth ==
    /\ pc \in {"select", "analysis", "done"}
    /\ Len(questions) = 3 * DrawsPerSet
    /\ AllAvailable

\* C6 as stated: with three sets' worth of questions, three sets repeat no
\* question across sets and use up the bank; a fourth set forces a repeat.
C6_NoRepeatAcrossSets ==
    ThreeSetsWorth =>
        /\ n_sets = 3 => \A q \in BagToSet(all_used_q_ids) : CopiesIn(q, all_used_q_ids) = 1
        /\ (n_sets = 3 /\ pc = "done") => BagToSet(all_used_q_ids) = AllIds
        /\ (n_sets = 4 /\ pc = "done")
              => \E q \in BagToSet(all_used_q_ids) : CopiesIn(q, all_used_q_ids) >= 2

\* C6 as amended: the used-set of a draw holds only what the same set drew
\* before, so no draw of a set is a repeat within the set; across sets a
\* question may repeat, and after a fourth set one must.
C6_NoRepeatWithinSet ==
    ThreeSetsWorth =>
        /\ \A k \in DOMAIN drawn :
              /\ drawn[k].used = {drawn[j].chosen : j \in 1..(k - 1)}
              /\ drawn[k].chosen \in AllIds \ drawn[k].used
        /\ (n_sets = 4 /\ pc = "done")
              => \E q \in BagToSet(all_used_q_ids) : CopiesIn(q, all_used_q_ids) >= 2

\* four sets of two draws each were made from six questions
C6_Witness ==
    /\ ThreeSetsWorth
    /\ DrawsPerSet = 2
    /\ n_sets = 4
    /\ pc = "done"
    /\ BagCardinality(all_used_q_ids) = 8

\* C7: an assigned question's level lies in the range of the slot's number:
\* 1-10 in {1,2,3}, 11-20 in {4,5}, 21-22 level 6.
C7_LevelInRange ==
    \A c \in DOMAIN selected :
        LET n == slots[c].slot_num
            level == selected[c].bloom
        IN /\ (1 <= n /\ n <= 10) => level \in {1, 2, 3}
           /\ (11 <= n /\ n <= 20) => level \in {4, 5}
           /\ (21 <= n /\ n <= 22) => level = 6

\* the right member of an OR-pair, a slot of 11-20, got a repeat while the
\* bank held a question of another level
C7_Witness ==
    /\ Returned
    /\ \E p \in DOMAIN or_pairs :
          /\ drawn[2 * p].chosen \in drawn[2 * p].used
          /\ slots[or_pairs[p][2]].slot_num \in 11..20
          /\ selected[or_pairs[p][2]].id = drawn[2 * p].chosen
    /\ \E k \in DOMAIN questions : questions[k].bloom \notin {4, 5}

\* the bank has fewer questions than the template has slots
TooSmall == pc \notin {"idle", "stopped"} /\ Len(questions) < Len(entries)

\* C8: with a bank smaller than the number of slots the run shows the
\* warning, is never stopped, can always go on until it is done, fills every
\* slot that has a candidate, repeating a question, and ends with n_sets
\* documents.
C8_SmallBankStillGenerates ==
    /\ (pc = "stopped") => (~(template /\ bank) \/ map_slots(slots) = <<>>)
    /\ TooSmall =>
          /\ ErrTooSmall \in messages
          /\ pc # "done" => ENABLED Next
          /\ pc = "done" => buffers = 1..n_sets
          /\ Returned => \A c \in Entries : ~NoCandidate(c) => c \in DOMAIN selected
          /\ (Returned /\ DOMAIN selected = Entries)
                => \E c, d \in Entries : c # d /\ selected[c].id = selected[d].id

\* two sets were produced for an OR-pair from a bank of one question
C8_Witness ==
    /\ TooSmall
    /\ pc = "done"
    /\ n_sets = 2
    /\ buffers = {1, 2}
    /\ or_pairs # <<>>
    /\ Len(questions) = 1
    /\ Cardinality(SelectedIds) = 1
    /\ DOMAIN selected = Entries

\* C9: a slot naming unit U gets a question of unit U when the bank holds
\* one of a level the slot allows.
C9_OwnUnit ==
    Returned =>
        \A c \in Entries :
            LET U == slots[c].unit_in_template
            IN (/\ U # None
                /\ \E k \in DOMAIN questions :
                      /\ questions[k].unit = U
                      /\ questions[k].bloom
                            \in Range(allowed_blooms_for_slot_num(slots[c].slot_num)))
                   => /\ c \in DOMAIN selected
                      /\ selected[c].unit = U

\* C10: when select_questions returns, the used-set is the set of ids of the
\* questions of the returned map.
C10_UsedIsSelected == Returned => used_q_ids = SelectedIds

====
